---- MODULE Spec2Model ----
(***************************************************************************)
(* The parser emitted by PEG.compiler.emitter (src/src/emitter.js), run as  *)
(* an abstract machine over a grammar AST and an input string.              *)
(*                                                                          *)
(* Strings are sequences of UTF-16 code units.  JavaScript values are       *)
(* sequences of integers too: null is <<-1>>, a string s is                 *)
(* <<-4>> \o s \o <<-5>> and an array is <<-2>> \o (its elements) \o <<-3>>.*)
(***************************************************************************)
EXTENDS Integers, Sequences, FiniteSets, TLC

\* Longest input string drawn for a parse.
MaxLen == 4

-----------------------------------------------------------------------------
(* Characters and strings *)

LF == 10
CR == 13
LS == 8232
PS == 8233

S_Expected == <<69, 120, 112, 101, 99, 116, 101, 100, 32>>
S_but == <<32, 98, 117, 116, 32>>
S_found == <<32, 102, 111, 117, 110, 100, 46>>
S_endOfInput == <<101, 110, 100, 32, 111, 102, 32, 105, 110, 112, 117, 116>>
S_comma == <<44, 32>>
S_or == <<32, 111, 114, 32>>
S_anyCharacter == <<97, 110, 121, 32, 99, 104, 97, 114, 97, 99, 116, 101, 114>>

Min(a, b) == IF a < b THEN a ELSE b

RECURSIVE Concat(_)
Concat(ss) == IF ss = <<>> THEN <<>> ELSE Head(ss) \o Concat(Tail(ss))

\* s.charAt(i), 0-based; the empty string (here <<>>) past the end.
charAt(s, i) == IF i >= 0 /\ i < Len(s) THEN <<s[i + 1]>> ELSE <<>>

\* s.substr(start, length), 0-based.
substr(s, start, length) == SubSeq(s, start + 1, Min(start + length, Len(s)))

\* One digit of Number.prototype.toString(16).toUpperCase().
HexDigit(d) == IF d < 10 THEN 48 + d ELSE 55 + d

RECURSIVE toHexUpper(_)
toHexUpper(n) ==
  IF n < 16 THEN <<HexDigit(n)>>
  ELSE toHexUpper(n \div 16) \o <<HexDigit(n % 16)>>

RECURSIVE padLeft(_, _, _)
padLeft(in, padding, length) ==
  IF Len(in) >= length THEN in ELSE padLeft(padding \o in, padding, length)

escape(ch) ==
  IF ch <= 255
  THEN <<92, 120>> \o padLeft(toHexUpper(ch), <<48>>, 2)
  ELSE <<92, 117>> \o padLeft(toHexUpper(ch), <<48>>, 4)

\* The chain of replace() calls of quote, character by character: no
\* replacement produces a character that a later replace() matches.
quoteChar(ch) ==
  IF ch = 92 THEN <<92, 92>>
  ELSE IF ch = 34 THEN <<92, 34>>
  ELSE IF ch = CR THEN <<92, 114>>
  ELSE IF ch = LF THEN <<92, 110>>
  ELSE IF ch >= 128 THEN escape(ch)
  ELSE <<ch>>

quote(s) == <<34>> \o Concat([i \in 1..Len(s) |-> quoteChar(s[i])]) \o <<34>>

\* Array.prototype.sort() with no comparator: by UTF-16 code units.
RECURSIVE LexLess(_, _)
LexLess(a, b) ==
  IF a = <<>> THEN b # <<>>
  ELSE IF b = <<>> THEN FALSE
  ELSE IF Head(a) = Head(b) THEN LexLess(Tail(a), Tail(b))
  ELSE Head(a) < Head(b)

sort(list) == SortSeq(list, LexLess)

-----------------------------------------------------------------------------
(* JavaScript values *)

Null == <<-1>>
StrVal(s) == <<-4>> \o s \o <<-5>>
EmptyStr == StrVal(<<>>)
EmptyArr == <<-2, -3>>
\* array.push(v)
push(arr, v) == SubSeq(arr, 1, Len(arr) - 1) \o v \o <<-3>>
\* No value: what a call that throws returns.
Undefined == <<-6>>

-----------------------------------------------------------------------------
(* Error reporting helpers of the emitted parser *)

RECURSIVE unique(_, _)
unique(list, lastFailure) ==
  IF list = <<>> THEN <<>>
  ELSE IF Head(list) # lastFailure
       THEN <<Head(list)>> \o unique(Tail(list), Head(list))
       ELSE unique(Tail(list), lastFailure)

RECURSIVE join(_, _)
join(list, sep) ==
  IF list = <<>> THEN <<>>
  ELSE IF Len(list) = 1 THEN list[1]
  ELSE list[1] \o sep \o join(Tail(list), sep)

\* buildExpected applied to the list already sorted in place.
buildExpected(sorted) ==
  LET failuresExpectedUnique == unique(sorted, Null)
      n == Len(failuresExpectedUnique)
  IN  IF n = 0 THEN S_endOfInput
      ELSE IF n = 1 THEN failuresExpectedUnique[1]
      ELSE join(SubSeq(failuresExpectedUnique, 1, n - 1), S_comma)
             \o S_or \o failuresExpectedUnique[n]

buildErrorMessage(in, p, rmfPos, sorted) ==
  LET expected == buildExpected(sorted)
      actualPos == IF p > rmfPos THEN p ELSE rmfPos
      actual == IF actualPos < Len(in)
                THEN quote(charAt(in, actualPos))
                ELSE S_endOfInput
  IN  S_Expected \o expected \o S_but \o actual \o S_found

\* One iteration of the loop of computeErrorPosition.
scanChar(st, ch) ==
  IF ch = <<LF>>
  THEN [line |-> IF st.seenCR THEN st.line ELSE st.line + 1,
        column |-> 1, seenCR |-> FALSE]
  ELSE IF ch = <<CR>> \/ ch = <<LS>> \/ ch = <<PS>>
  THEN [line |-> st.line + 1, column |-> 1, seenCR |-> TRUE]
  ELSE [line |-> st.line, column |-> st.column + 1, seenCR |-> FALSE]

RECURSIVE scanTo(_, _)
scanTo(in, n) ==
  IF n <= 0 THEN [line |-> 1, column |-> 1, seenCR |-> FALSE]
  ELSE scanChar(scanTo(in, n - 1), charAt(in, n - 1))

\* A scan that also counts the character at the failure position.
computeErrorPosition_inclusive(in, rmfPos) ==
  LET st == scanTo(in, rmfPos + 1)
  IN  [line |-> st.line, column |-> st.column]

computeErrorPosition(in, rmfPos) ==
  LET st == scanTo(in, rmfPos)
  IN  [line |-> st.line, column |-> st.column]

-----------------------------------------------------------------------------
(* Grammar ASTs: the input of the emitter.  A grammar is a table of nodes    *)
(* (kids are indices into it), its rules and its startRule.                  *)

NoName == <<-1>>

Leaf(type, value) ==
  [type |-> type, kids |-> <<>>, value |-> value, parts |-> <<>>,
   inverted |-> FALSE, code |-> "", name |-> ""]
Literal(value) == Leaf("literal", value)
AnyChar == Leaf("any", <<>>)
\* parts: <<lo, hi>> pairs (a single character c is <<c, c>>); value: rawText.
Class(parts, inverted, rawText) ==
  [Leaf("class", rawText) EXCEPT !.parts = parts, !.inverted = inverted]
\* code: what the user's code returns ("null", "X", "true" or "false").
Semantic(type, code) == [Leaf(type, <<>>) EXCEPT !.code = code]
RuleRef(name) == [Leaf("rule_ref", <<>>) EXCEPT !.name = name]
Op(type, kids) == [Leaf(type, <<>>) EXCEPT !.kids = kids]
Action(kid, code) == [Leaf("action", <<>>) EXCEPT !.kids = <<kid>>, !.code = code]
Rule(displayName, expression) ==
  [displayName |-> displayName, expression |-> expression]

\* start = "abc"
G_literal ==
  [startRule |-> "start",
   rules |-> [start |-> Rule(NoName, 1)],
   nodes |-> << Literal(<<97, 98, 99>>) >>]

\* start = "a" / "ab"
G_choice ==
  [startRule |-> "start",
   rules |-> [start |-> Rule(NoName, 1)],
   nodes |-> << Op("choice", <<2, 3>>), Literal(<<97>>), Literal(<<97, 98>>) >>]

\* start = "a" "\n" "b"
G_lines ==
  [startRule |-> "start",
   rules |-> [start |-> Rule(NoName, 1)],
   nodes |-> << Op("sequence", <<2, 3, 4>>),
                Literal(<<97>>), Literal(<<LF>>), Literal(<<98>>) >>]

\* start = .* "x"
G_any ==
  [startRule |-> "start",
   rules |-> [start |-> Rule(NoName, 1)],
   nodes |-> << Op("sequence", <<2, 4>>), Op("zero_or_more", <<3>>), AnyChar,
                Literal(<<120>>) >>]

\* start = !a a ; a = "x"
G_not ==
  [startRule |-> "start",
   rules |-> [start |-> Rule(NoName, 1), a |-> Rule(NoName, 5)],
   nodes |-> << Op("sequence", <<2, 4>>), Op("simple_not", <<3>>),
                RuleRef("a"), RuleRef("a"), Literal(<<120>>) >>]

\* start = !n "b" / n / m ; n "N" = "a" "c" ; m "M" = "c"
G_named ==
  [startRule |-> "start",
   rules |-> [start |-> Rule(NoName, 1), n |-> Rule(<<78>>, 8),
              m |-> Rule(<<77>>, 11)],
   nodes |-> << Op("choice", <<2, 6, 7>>), Op("sequence", <<3, 5>>),
                Op("simple_not", <<4>>), RuleRef("n"), Literal(<<98>>),
                RuleRef("n"), RuleRef("m"),
                Op("sequence", <<9, 10>>), Literal(<<97>>), Literal(<<99>>),
                Literal(<<99>>) >>]

\* start = m / "b" ; m "M" = "a" { return null }
G_nullAction ==
  [startRule |-> "start",
   rules |-> [start |-> Rule(NoName, 1), m |-> Rule(<<77>>, 4)],
   nodes |-> << Op("choice", <<2, 3>>), RuleRef("m"), Literal(<<98>>),
                Action(5, "null"), Literal(<<97>>) >>]

\* start = !("a" { return null }) "b" / &("a" { return null }) "a"
G_nullPredicate ==
  [startRule |-> "start",
   rules |-> [start |-> Rule(NoName, 1)],
   nodes |-> << Op("choice", <<2, 7>>),
                Op("sequence", <<3, 6>>), Op("simple_not", <<4>>),
                Action(5, "null"), Literal(<<97>>), Literal(<<98>>),
                Op("sequence", <<8, 11>>), Op("simple_and", <<9>>),
                Action(10, "null"), Literal(<<97>>), Literal(<<97>>) >>]

\* start = x:[a-b]+ &{ return true } y:"c"? !{ return false } &. { return "X" }
G_all ==
  [startRule |-> "start",
   rules |-> [start |-> Rule(NoName, 1)],
   nodes |-> << Action(2, "X"), Op("sequence", <<3, 6, 7, 10, 11>>),
                Op("labeled", <<4>>), Op("one_or_more", <<5>>),
                Class(<< <<97, 98>> >>, FALSE, <<91, 97, 45, 98, 93>>),
                Semantic("semantic_and", "true"),
                Op("labeled", <<8>>), Op("optional", <<9>>), Literal(<<99>>),
                Semantic("semantic_not", "false"),
                Op("simple_and", <<12>>), AnyChar >>]

\* start = "c" / "a" "b" / "d"
G_backtrack ==
  [startRule |-> "start",
   rules |-> [start |-> Rule(NoName, 1)],
   nodes |-> << Op("choice", <<2, 3, 6>>), Literal(<<99>>),
                Op("sequence", <<4, 5>>), Literal(<<97>>), Literal(<<98>>),
                Literal(<<100>>) >>]

\* start = (&"a")*
G_loop ==
  [startRule |-> "start",
   rules |-> [start |-> Rule(NoName, 1)],
   nodes |-> << Op("zero_or_more", <<2>>), Op("simple_and", <<3>>),
                Literal(<<97>>) >>]

\* start = rest "y" ; rest = .*
G_rest ==
  [startRule |-> "start",
   rules |-> [start |-> Rule(NoName, 1), rest |-> Rule(NoName, 4)],
   nodes |-> << Op("sequence", <<2, 3>>), RuleRef("rest"), Literal(<<121>>),
                Op("zero_or_more", <<5>>), AnyChar >>]

Grammars ==
  << G_literal, G_choice, G_lines, G_any, G_not, G_named, G_nullAction,
     G_nullPredicate, G_all, G_backtrack, G_loop, G_rest >>

\* The characters the inputs of each grammar are drawn from.
Alphabets ==
  << {97, 98, 99, 100}, {97, 98}, {97, LF, 98, 99}, {LF, CR, LS, PS, 97},
     {120, 121}, {97, 98, 99}, {97, 98}, {97, 98}, {97, 99, 100},
     {97, 98, 99}, {97, 98}, {120, 121} >>

Inputs(g) ==
  UNION {[1..k -> Alphabets[g]] : k \in 0..MaxLen}

\* A grammar whose nodes carry no user code.
NoSemanticCode(g) ==
  \A k \in 1..Len(Grammars[g].nodes) :
     Grammars[g].nodes[k].type \notin {"action", "semantic_and", "semantic_not"}

-----------------------------------------------------------------------------
(* The state of one parse(input) call of the emitted parser *)

VARIABLES
  grammar,                         \* index of the AST the parser was built from
  input,
  pos,
  reportMatchFailures,
  rightmostMatchFailuresPos,
  rightmostMatchFailuresExpected,
  cache,                           \* <<ruleName, pos>> -> [nextPos, result]
  stack,                           \* fragments and rule functions in progress
  ctl,                             \* what runs next
  result,                          \* var result of parse
  outcome,                         \* what parse returned or threw
  lookup,                          \* FALSE: the cache is never read
  memoOutcome,                     \* outcome of the parse that read the cache
  calls,                           \* history: the matchFailed calls of this parse
  exited,                          \* history: the fragment that completed last
  args,                            \* the arguments of a formatCode call
  formatted,                       \* what formatCode returned or threw
  counters,                        \* UID._counters
  ids,                             \* history: what UID.next returned since
                                   \* the last UID.reset
  todo,                            \* the UID.next calls the emission of the
                                   \* current rule has still to make
  emitting,                        \* the rule whose code is being emitted
  emitted                          \* history: the emissions completed

\* The state of the emitter, which runs before any parser exists.
build == << args, formatted, counters, ids, todo, emitting, emitted >>

vars ==
  << grammar, input, pos, reportMatchFailures, rightmostMatchFailuresPos,
     rightmostMatchFailuresExpected, cache, stack, ctl, result, outcome,
     lookup, memoOutcome, calls, exited, build >>

G == Grammars[grammar]
Node(n) == G.nodes[n]
Kids(n) == Node(n).kids
Top == stack[Len(stack)]
Pop == SubSeq(stack, 1, Len(stack) - 1)

Exec(n) == [op |-> "exec", n |-> n, rule |-> "", val |-> Null]
Call(rule) == [op |-> "call", n |-> 0, rule |-> rule, val |-> Null]
Ret(v) == [op |-> "ret", n |-> 0, rule |-> "", val |-> v]
End == [op |-> "end", n |-> 0, rule |-> "", val |-> Null]

\* The parser state on entry to a fragment.
Snap ==
  [pos |-> pos, report |-> reportMatchFailures,
   rmfPos |-> rightmostMatchFailuresPos,
   expected |-> rightmostMatchFailuresExpected, ncalls |-> Len(calls)]

\* The local variables of a fragment whose sub-expression is running.
Frame(n, savedPos, savedReportMatchFailures) ==
  [kind |-> "frag", n |-> n, rule |-> "", i |-> 1, savedPos |-> savedPos,
   savedReportMatchFailures |-> savedReportMatchFailures, cacheKey |-> <<>>,
   res |-> EmptyArr, tried |-> <<>>, e |-> Snap]

\* The local variables of a parse_<name> function whose body is running.
RuleFrame(rule) ==
  [kind |-> "rule", n |-> 0, rule |-> rule, i |-> 1, savedPos |-> -1,
   savedReportMatchFailures |-> reportMatchFailures,
   cacheKey |-> <<rule, pos>>, res |-> EmptyArr, tried |-> <<>>, e |-> Snap]

Exited(type, n, rule, e, tried) ==
  [type |-> type, n |-> n, rule |-> rule, e |-> e, tried |-> tried]

NoOutcome ==
  [kind |-> "none", value |-> Undefined, message |-> <<>>, line |-> 0,
   column |-> 0]

\* No formatCode call made yet, no rule emitted yet.
NoArgs == [parts |-> <<>>, vars |-> <<>>]
NotFormatted ==
  [kind |-> "none", value |-> <<>>, interpolated |-> <<>>, indented |-> <<>>]
NoBuild ==
  /\ args = NoArgs
  /\ formatted = NotFormatted
  /\ counters = <<>>
  /\ ids = <<>>
  /\ todo = <<>>
  /\ emitting = ""
  /\ emitted = <<>>

Resumes(type) ==
  /\ ctl.op = "ret"
  /\ stack # <<>>
  /\ Top.kind = "frag"
  /\ Node(Top.n).type = type

Starts(type) ==
  /\ ctl.op = "exec"
  /\ Node(ctl.n).type = type

Init ==
  /\ grammar \in 1..Len(Grammars)
  /\ input \in Inputs(grammar)
  /\ pos = 0
  /\ reportMatchFailures = TRUE
  /\ rightmostMatchFailuresPos = 0
  /\ rightmostMatchFailuresExpected = <<>>
  /\ cache = <<>>
  /\ stack = <<>>
  /\ ctl = Call(G.startRule)
  /\ result = Null
  /\ outcome = NoOutcome
  /\ lookup = TRUE
  /\ memoOutcome = NoOutcome
  /\ calls = <<>>
  /\ exited = Exited("none", 0, "", Snap, <<>>)
  /\ NoBuild

\* A matchFailed that keeps the old failures when it moves right.
matchFailed_keepsList(failure) ==
  /\ calls' = Append(calls, [pos |-> pos, failure |-> failure])
  /\ IF pos < rightmostMatchFailuresPos
     THEN UNCHANGED <<rightmostMatchFailuresPos, rightmostMatchFailuresExpected>>
     ELSE /\ rightmostMatchFailuresPos' = pos
          /\ rightmostMatchFailuresExpected' =
               Append(rightmostMatchFailuresExpected, failure)

matchFailed(failure) ==
  /\ calls' = Append(calls, [pos |-> pos, failure |-> failure])
  /\ IF pos < rightmostMatchFailuresPos
     THEN UNCHANGED <<rightmostMatchFailuresPos, rightmostMatchFailuresExpected>>
     ELSE /\ rightmostMatchFailuresPos' = pos
          /\ rightmostMatchFailuresExpected' =
               Append(IF pos > rightmostMatchFailuresPos
                      THEN <<>>
                      ELSE rightmostMatchFailuresExpected, failure)

noMatchFailed ==
  UNCHANGED <<rightmostMatchFailuresPos, rightmostMatchFailuresExpected, calls>>

\* The failure branch shared by literal, any and class.
reportFailure(failure) ==
  IF reportMatchFailures THEN matchFailed(failure) ELSE noMatchFailed

-----------------------------------------------------------------------------
(* Fragments that run no sub-expression *)

\* The failure description is quote(node.value), computed by the emitter with
\* the quote of utils.js, which the emitted quote is kept in sync with.
literal ==
  /\ Starts("literal")
  /\ LET value == Node(ctl.n).value
     IN  IF substr(input, pos, Len(value)) = value
         THEN /\ pos' = pos + Len(value)
              /\ ctl' = Ret(StrVal(value))
              /\ noMatchFailed
         ELSE /\ pos' = pos
              /\ ctl' = Ret(Null)
              /\ reportFailure(quote(value))
  /\ exited' = Exited("literal", ctl.n, "", Snap, <<>>)
  /\ UNCHANGED <<build, grammar, input, reportMatchFailures, cache, stack,
                 result, outcome, lookup, memoOutcome>>

\* An any that does not look at the length of the input.
any_unchecked ==
  /\ Starts("any")
  /\ pos' = pos + 1
  /\ ctl' = Ret(StrVal(charAt(input, pos)))
  /\ noMatchFailed
  /\ exited' = Exited("any", ctl.n, "", Snap, <<>>)
  /\ UNCHANGED <<build, grammar, input, reportMatchFailures, cache, stack,
                 result, outcome, lookup, memoOutcome>>

any ==
  /\ Starts("any")
  /\ IF Len(input) > pos
     THEN /\ pos' = pos + 1
          /\ ctl' = Ret(StrVal(charAt(input, pos)))
          /\ noMatchFailed
     ELSE /\ pos' = pos
          /\ ctl' = Ret(Null)
          /\ reportFailure(S_anyCharacter)
  /\ exited' = Exited("any", ctl.n, "", Snap, <<>>)
  /\ UNCHANGED <<build, grammar, input, reportMatchFailures, cache, stack,
                 result, outcome, lookup, memoOutcome>>

\* input.substr(pos).match(/^[...]/) !== null
classMatches(node, p) ==
  /\ p < Len(input)
  /\ (\E k \in 1..Len(node.parts) :
        /\ node.parts[k][1] <= input[p + 1]
        /\ input[p + 1] <= node.parts[k][2]) # node.inverted

class ==
  /\ Starts("class")
  /\ IF classMatches(Node(ctl.n), pos)
     THEN /\ pos' = pos + 1
          /\ ctl' = Ret(StrVal(charAt(input, pos)))
          /\ noMatchFailed
     ELSE /\ pos' = pos
          /\ ctl' = Ret(Null)
          /\ reportFailure(Node(ctl.n).value)
  /\ exited' = Exited("class", ctl.n, "", Snap, <<>>)
  /\ UNCHANGED <<build, grammar, input, reportMatchFailures, cache, stack,
                 result, outcome, lookup, memoOutcome>>

\* The value of (function() {code})() for the user codes of the grammars.
runCode(code) ==
  IF code = "null" THEN Null
  ELSE IF code = "X" THEN StrVal(<<88>>)
  ELSE IF code = "true" THEN <<-7>>
  ELSE <<-8>>

truthy(v) == v \notin {Null, <<-8>>, EmptyStr, Undefined}

semantic_and ==
  /\ Starts("semantic_and")
  /\ ctl' = Ret(IF truthy(runCode(Node(ctl.n).code)) THEN EmptyStr ELSE Null)
  /\ exited' = Exited("semantic_and", ctl.n, "", Snap, <<>>)
  /\ UNCHANGED <<build, grammar, input, pos, reportMatchFailures,
                 rightmostMatchFailuresPos, rightmostMatchFailuresExpected,
                 cache, stack, result, outcome, lookup, memoOutcome, calls>>

semantic_not ==
  /\ Starts("semantic_not")
  /\ ctl' = Ret(IF truthy(runCode(Node(ctl.n).code)) THEN Null ELSE EmptyStr)
  /\ exited' = Exited("semantic_not", ctl.n, "", Snap, <<>>)
  /\ UNCHANGED <<build, grammar, input, pos, reportMatchFailures,
                 rightmostMatchFailuresPos, rightmostMatchFailuresExpected,
                 cache, stack, result, outcome, lookup, memoOutcome, calls>>

\* The elements of a result array that are kept: a loop whose sub-expression
\* consumes input at every run pushes at most MaxLen of them, and the loop of
\* a sub-expression that succeeds without consuming input pushes for ever.
MaxIter == MaxLen + 2

\* result.push(v) on the result array of a loop, in its i-th run.
loopPush(res, i, v) == IF i <= MaxIter THEN push(res, v) ELSE res

-----------------------------------------------------------------------------
(* Fragments around sub-expressions: the code before the sub-expression     *)
(* (X) and the code after each run of it (X_resume).  Every choice and       *)
(* sequence of Grammars has at least one sub-expression.                     *)

keepParse ==
  UNCHANGED <<build, grammar, input, result, outcome, lookup, memoOutcome>>

SetTop(f) == [stack EXCEPT ![Len(stack)] = f]

choice ==
  /\ Starts("choice")
  /\ stack' = Append(stack, Frame(ctl.n, -1, FALSE))
  /\ ctl' = Exec(Kids(ctl.n)[1])
  /\ keepParse
  /\ UNCHANGED <<pos, reportMatchFailures, cache, exited>>
  /\ noMatchFailed

choice_resume ==
  /\ Resumes("choice")
  /\ LET tried == Append(Top.tried, [alt |-> Top.i, val |-> ctl.val])
     IN  IF ctl.val = Null /\ Top.i < Len(Kids(Top.n))
         THEN /\ stack' = SetTop([Top EXCEPT !.i = Top.i + 1, !.tried = tried])
              /\ ctl' = Exec(Kids(Top.n)[Top.i + 1])
              /\ UNCHANGED exited
         ELSE /\ stack' = Pop
              /\ ctl' = Ret(ctl.val)
              /\ exited' = Exited("choice", Top.n, "", Top.e, tried)
  /\ keepParse
  /\ UNCHANGED <<pos, reportMatchFailures, cache>>
  /\ noMatchFailed

sequence ==
  /\ Starts("sequence")
  /\ stack' = Append(stack, Frame(ctl.n, pos, FALSE))
  /\ ctl' = Exec(Kids(ctl.n)[1])
  /\ keepParse
  /\ UNCHANGED <<pos, reportMatchFailures, cache, exited>>
  /\ noMatchFailed

sequence_resume ==
  /\ Resumes("sequence")
  /\ IF ctl.val # Null
     THEN /\ pos' = pos
          /\ IF Top.i < Len(Kids(Top.n))
             THEN /\ stack' = SetTop([Top EXCEPT !.i = Top.i + 1,
                                                 !.res = push(Top.res, ctl.val)])
                  /\ ctl' = Exec(Kids(Top.n)[Top.i + 1])
                  /\ UNCHANGED exited
             ELSE /\ stack' = Pop
                  /\ ctl' = Ret(push(Top.res, ctl.val))
                  /\ exited' = Exited("sequence", Top.n, "", Top.e, <<>>)
     ELSE /\ pos' = Top.savedPos
          /\ stack' = Pop
          /\ ctl' = Ret(Null)
          /\ exited' = Exited("sequence", Top.n, "", Top.e, <<>>)
  /\ keepParse
  /\ UNCHANGED <<reportMatchFailures, cache>>
  /\ noMatchFailed

\* emit(node.expression, resultVar): the fragment of the labeled expression.
labeled ==
  /\ Starts("labeled")
  /\ ctl' = Exec(Kids(ctl.n)[1])
  /\ keepParse
  /\ UNCHANGED <<pos, reportMatchFailures, cache, stack, exited>>
  /\ noMatchFailed

simple_and ==
  /\ Starts("simple_and")
  /\ stack' = Append(stack, Frame(ctl.n, pos, reportMatchFailures))
  /\ reportMatchFailures' = FALSE
  /\ ctl' = Exec(Kids(ctl.n)[1])
  /\ keepParse
  /\ UNCHANGED <<pos, cache, exited>>
  /\ noMatchFailed

simple_and_resume ==
  /\ Resumes("simple_and")
  /\ reportMatchFailures' = Top.savedReportMatchFailures
  /\ IF ctl.val # Null
     THEN /\ ctl' = Ret(EmptyStr)
          /\ pos' = Top.savedPos
     ELSE /\ ctl' = Ret(Null)
          /\ pos' = pos
  /\ stack' = Pop
  /\ exited' = Exited("simple_and", Top.n, "", Top.e, <<>>)
  /\ keepParse
  /\ UNCHANGED cache
  /\ noMatchFailed

simple_not ==
  /\ Starts("simple_not")
  /\ stack' = Append(stack, Frame(ctl.n, pos, reportMatchFailures))
  /\ reportMatchFailures' = FALSE
  /\ ctl' = Exec(Kids(ctl.n)[1])
  /\ keepParse
  /\ UNCHANGED <<pos, cache, exited>>
  /\ noMatchFailed

simple_not_resume ==
  /\ Resumes("simple_not")
  /\ reportMatchFailures' = Top.savedReportMatchFailures
  /\ IF ctl.val = Null
     THEN /\ ctl' = Ret(EmptyStr)
          /\ pos' = pos
     ELSE /\ ctl' = Ret(Null)
          /\ pos' = Top.savedPos
  /\ stack' = Pop
  /\ exited' = Exited("simple_not", Top.n, "", Top.e, <<>>)
  /\ keepParse
  /\ UNCHANGED cache
  /\ noMatchFailed

optional ==
  /\ Starts("optional")
  /\ stack' = Append(stack, Frame(ctl.n, -1, FALSE))
  /\ ctl' = Exec(Kids(ctl.n)[1])
  /\ keepParse
  /\ UNCHANGED <<pos, reportMatchFailures, cache, exited>>
  /\ noMatchFailed

optional_resume ==
  /\ Resumes("optional")
  /\ ctl' = Ret(IF ctl.val # Null THEN ctl.val ELSE EmptyStr)
  /\ stack' = Pop
  /\ exited' = Exited("optional", Top.n, "", Top.e, <<>>)
  /\ keepParse
  /\ UNCHANGED <<pos, reportMatchFailures, cache>>
  /\ noMatchFailed

zero_or_more ==
  /\ Starts("zero_or_more")
  /\ stack' = Append(stack, Frame(ctl.n, -1, FALSE))
  /\ ctl' = Exec(Kids(ctl.n)[1])
  /\ keepParse
  /\ UNCHANGED <<pos, reportMatchFailures, cache, exited>>
  /\ noMatchFailed

zero_or_more_resume ==
  /\ Resumes("zero_or_more")
  /\ IF ctl.val # Null
     THEN /\ stack' = SetTop([Top EXCEPT
                                 !.i = Min(Top.i + 1, MaxIter + 1),
                                 !.res = loopPush(Top.res, Top.i, ctl.val)])
          /\ ctl' = Exec(Kids(Top.n)[1])
          /\ UNCHANGED exited
     ELSE /\ stack' = Pop
          /\ ctl' = Ret(Top.res)
          /\ exited' = Exited("zero_or_more", Top.n, "", Top.e, <<>>)
  /\ keepParse
  /\ UNCHANGED <<pos, reportMatchFailures, cache>>
  /\ noMatchFailed

one_or_more ==
  /\ Starts("one_or_more")
  /\ stack' = Append(stack, Frame(ctl.n, -1, FALSE))
  /\ ctl' = Exec(Kids(ctl.n)[1])
  /\ keepParse
  /\ UNCHANGED <<pos, reportMatchFailures, cache, exited>>
  /\ noMatchFailed

\* Top.i = 1: the first run of the sub-expression has returned.
one_or_more_resume ==
  /\ Resumes("one_or_more")
  /\ IF ctl.val # Null
     THEN /\ stack' = SetTop([Top EXCEPT
                                 !.i = Min(Top.i + 1, MaxIter + 1),
                                 !.res = loopPush(Top.res, Top.i, ctl.val)])
          /\ ctl' = Exec(Kids(Top.n)[1])
          /\ UNCHANGED exited
     ELSE /\ stack' = Pop
          /\ ctl' = Ret(IF Top.i = 1 THEN Null ELSE Top.res)
          /\ exited' = Exited("one_or_more", Top.n, "", Top.e, <<>>)
  /\ keepParse
  /\ UNCHANGED <<pos, reportMatchFailures, cache>>
  /\ noMatchFailed

action ==
  /\ Starts("action")
  /\ stack' = Append(stack, Frame(ctl.n, -1, FALSE))
  /\ ctl' = Exec(Kids(ctl.n)[1])
  /\ keepParse
  /\ UNCHANGED <<pos, reportMatchFailures, cache, exited>>
  /\ noMatchFailed

action_resume ==
  /\ Resumes("action")
  /\ ctl' = Ret(IF ctl.val # Null THEN runCode(Node(Top.n).code) ELSE Null)
  /\ stack' = Pop
  /\ exited' = Exited("action", Top.n, "", Top.e, <<>>)
  /\ keepParse
  /\ UNCHANGED <<pos, reportMatchFailures, cache>>
  /\ noMatchFailed

\* var resultVar = parse_<name>();
rule_ref ==
  /\ Starts("rule_ref")
  /\ ctl' = Call(Node(ctl.n).name)
  /\ keepParse
  /\ UNCHANGED <<pos, reportMatchFailures, cache, stack, exited>>
  /\ noMatchFailed

-----------------------------------------------------------------------------
(* The parse_<name> functions and parse itself *)

\* parse_<name> up to its body: the cache lookup and, for a rule with a
\* displayName, setReportMatchFailuresCode.
parse_rule ==
  /\ ctl.op = "call"
  /\ LET cacheKey == <<ctl.rule, pos>>
     IN  IF lookup /\ cacheKey \in DOMAIN cache
         THEN /\ pos' = cache[cacheKey].nextPos
              /\ ctl' = Ret(cache[cacheKey].result)
              /\ exited' = Exited("rule", 0, ctl.rule, Snap, <<>>)
              /\ UNCHANGED <<stack, reportMatchFailures>>
         ELSE /\ stack' = Append(stack, RuleFrame(ctl.rule))
              /\ reportMatchFailures' =
                   IF G.rules[ctl.rule].displayName # NoName
                   THEN FALSE
                   ELSE reportMatchFailures
              /\ ctl' = Exec(G.rules[ctl.rule].expression)
              /\ UNCHANGED <<pos, exited>>
  /\ keepParse
  /\ UNCHANGED cache
  /\ noMatchFailed

\* parse_<name> after its body: restoreReportMatchFailuresCode,
\* reportMatchFailureCode, the cache store and the return.
parse_rule_return ==
  /\ ctl.op = "ret"
  /\ stack # <<>>
  /\ Top.kind = "rule"
  /\ LET displayName == G.rules[Top.rule].displayName
         restored == IF displayName # NoName
                     THEN Top.savedReportMatchFailures
                     ELSE reportMatchFailures
     IN  /\ reportMatchFailures' = restored
         /\ IF displayName # NoName /\ restored /\ ctl.val = Null
            THEN matchFailed(displayName)
            ELSE noMatchFailed
  /\ cache' = (Top.cacheKey :> [nextPos |-> pos, result |-> ctl.val]) @@ cache
  /\ stack' = Pop
  /\ ctl' = Ret(ctl.val)
  /\ exited' = Exited("rule", 0, Top.rule, Top.e, <<>>)
  /\ keepParse
  /\ UNCHANGED pos

\* parse from the return of the start rule's function on; failed is the
\* condition of its if.  buildExpected sorts rightmostMatchFailuresExpected
\* in place.
parseEnd(failed) ==
  /\ ctl.op = "ret"
  /\ stack = <<>>
  /\ result' = ctl.val
  /\ IF failed
     THEN LET errorPosition ==
                computeErrorPosition(input, rightmostMatchFailuresPos)
              sorted == sort(rightmostMatchFailuresExpected)
          IN  /\ rightmostMatchFailuresExpected' = sorted
              /\ outcome' =
                   [kind |-> "SyntaxError", value |-> Undefined,
                    message |-> buildErrorMessage(input, pos,
                                  rightmostMatchFailuresPos, sorted),
                    line |-> errorPosition.line,
                    column |-> errorPosition.column]
     ELSE /\ outcome' = [NoOutcome EXCEPT !.kind = "return", !.value = ctl.val]
          /\ UNCHANGED rightmostMatchFailuresExpected
  /\ ctl' = End
  /\ UNCHANGED <<build, grammar, input, pos, reportMatchFailures,
                 rightmostMatchFailuresPos, cache, stack, lookup, memoOutcome,
                 calls, exited>>

\* A parse that does not check for unconsumed input.
parse_ignoresPos == parseEnd(ctl.val = Null)

parse == parseEnd(ctl.val = Null \/ pos # Len(input))

\* parse(input) called again on the same input, by the same parser with the
\* cache lookup of parse_<name> left out.
parse_without_lookup ==
  /\ ctl.op = "end"
  /\ lookup
  /\ lookup' = FALSE
  /\ memoOutcome' = outcome
  /\ pos' = 0
  /\ reportMatchFailures' = TRUE
  /\ rightmostMatchFailuresPos' = 0
  /\ rightmostMatchFailuresExpected' = <<>>
  /\ cache' = <<>>
  /\ stack' = <<>>
  /\ ctl' = Call(G.startRule)
  /\ result' = Null
  /\ outcome' = NoOutcome
  /\ calls' = <<>>
  /\ exited' = Exited("none", 0, "", [Snap EXCEPT !.pos = 0, !.report = TRUE,
                        !.rmfPos = 0, !.expected = <<>>, !.ncalls = 0], <<>>)
  /\ UNCHANGED <<build, grammar, input>>

Next ==
  \/ literal \/ any \/ class \/ semantic_and \/ semantic_not
  \/ choice \/ choice_resume
  \/ sequence \/ sequence_resume
  \/ labeled
  \/ simple_and \/ simple_and_resume
  \/ simple_not \/ simple_not_resume
  \/ optional \/ optional_resume
  \/ zero_or_more \/ zero_or_more_resume
  \/ one_or_more \/ one_or_more_resume
  \/ action \/ action_resume
  \/ rule_ref
  \/ parse_rule \/ parse_rule_return
  \/ parse
  \/ parse_without_lookup

Spec == Init /\ [][Next]_vars

\* The emitted parser is one sequential program: while a statement is left
\* to run, the engine runs it.
FairSpec == Spec /\ WF_vars(Next)

-----------------------------------------------------------------------------
(* formatCode, the template function the emitter builds all code with *)

S_string == <<115, 116, 114, 105, 110, 103>>
S_UndefinedVariable ==
  <<85, 110, 100, 101, 102, 105, 110, 101, 100, 32, 118, 97, 114, 105, 97, 98, 108, 101, 58, 32>>
S_UnrecognizedFilter ==
  <<85, 110, 114, 101, 99, 111, 103, 110, 105, 122, 101, 100, 32, 102, 105, 108, 116, 101, 114, 58, 32>>

\* The characters /\s/ matches.
WhiteSpace ==
  {9, 10, 11, 12, 13, 32, 160, 5760, 6158, 8232, 8233, 8239, 8287, 12288,
   65279} \cup (8192..8202)

\* [a-zA-Z_] and [a-zA-Z0-9_]
IdentStart(c) == c \in (65..90) \cup (97..122) \cup {95}
IdentPart(c) == IdentStart(c) \/ c \in 48..57

\* The index after the longest run of [a-zA-Z0-9_] that starts at index i.
RECURSIVE identEnd(_, _)
identEnd(s, i) ==
  IF i <= Len(s) /\ IdentPart(s[i]) THEN identEnd(s, i + 1) ELSE i

\* The match of /\$\{([a-zA-Z_][a-zA-Z0-9_]*)(\|([a-zA-Z_][a-zA-Z0-9_]*))?\}/
\* at index i of s, if there is one.
matchVariable(s, i) ==
  LET nameEnd == identEnd(s, i + 2)
      filterEnd == identEnd(s, nameEnd + 1)
      noMatch == [found |-> FALSE, name |-> <<>>, filter |-> <<>>, next |-> i]
  IN  IF ~(/\ i + 2 <= Len(s)
           /\ s[i] = 36 /\ s[i + 1] = 123
           /\ IdentStart(s[i + 2])
           /\ nameEnd <= Len(s))
      THEN noMatch
      ELSE IF s[nameEnd] = 125
      THEN [found |-> TRUE, name |-> SubSeq(s, i + 2, nameEnd - 1),
            filter |-> <<>>, next |-> nameEnd + 1]
      ELSE IF /\ s[nameEnd] = 124
              /\ nameEnd + 1 <= Len(s)
              /\ IdentStart(s[nameEnd + 1])
              /\ filterEnd <= Len(s)
              /\ s[filterEnd] = 125
      THEN [found |-> TRUE, name |-> SubSeq(s, i + 2, nameEnd - 1),
            filter |-> SubSeq(s, nameEnd + 1, filterEnd - 1),
            next |-> filterEnd + 1]
      ELSE noMatch

\* The callback of part.replace: what it returns or throws.
replacement(m, v) ==
  IF m.name \notin DOMAIN v
  THEN [error |-> TRUE,
        text |-> S_UndefinedVariable \o <<34>> \o m.name \o <<34, 46>>]
  ELSE IF m.filter # <<>>
  THEN IF m.filter = S_string
       THEN [error |-> FALSE, text |-> quote(v[m.name])]
       ELSE [error |-> TRUE,
             text |-> S_UnrecognizedFilter \o <<34>> \o m.filter \o <<34, 46>>]
  ELSE [error |-> FALSE, text |-> v[m.name]]

\* part.replace(/.../g, callback) from index i on: the first throw of the
\* callback ends it.
RECURSIVE replace(_, _, _)
replace(s, i, v) ==
  IF i > Len(s) THEN [error |-> FALSE, text |-> <<>>]
  ELSE LET m == matchVariable(s, i)
           r == replacement(m, v)
           rest == replace(s, IF m.found THEN m.next ELSE i + 1, v)
       IN  IF m.found /\ r.error THEN r
           ELSE IF rest.error THEN rest
           ELSE [error |-> FALSE,
                 text |-> (IF m.found THEN r.text ELSE <<s[i]>>) \o rest.text]

RECURSIVE interpolateVariablesInParts(_, _)
interpolateVariablesInParts(parts, v) ==
  IF parts = <<>> THEN [error |-> FALSE, text |-> <<>>, parts |-> <<>>]
  ELSE LET first == replace(Head(parts), 1, v)
           rest == interpolateVariablesInParts(Tail(parts), v)
       IN  IF first.error THEN [first EXCEPT !.error = TRUE] @@ [parts |-> <<>>]
           ELSE IF rest.error THEN rest
           ELSE [error |-> FALSE, text |-> <<>>,
                 parts |-> <<first.text>> \o rest.parts]

\* part.match(/^\s*/)[0]
RECURSIVE matchWhitespace(_)
matchWhitespace(s) ==
  IF s # <<>> /\ Head(s) \in WhiteSpace
  THEN <<Head(s)>> \o matchWhitespace(Tail(s))
  ELSE <<>>

\* s.split("\n")
RECURSIVE split(_)
split(s) ==
  IF \A i \in 1..Len(s) : s[i] # LF THEN <<s>>
  ELSE LET k == CHOOSE i \in 1..Len(s) :
                  s[i] = LF /\ \A j \in 1..(i - 1) : s[j] # LF
       IN  <<SubSeq(s, 1, k - 1)>> \o split(SubSeq(s, k + 1, Len(s)))

indentMultilinePart(part) ==
  IF \A i \in 1..Len(part) : part[i] # LF THEN part
  ELSE LET firstLineWhitespacePrefix == matchWhitespace(part)
           lines == split(part)
           linesIndented ==
             <<lines[1]>> \o
             [k \in 1..(Len(lines) - 1) |->
                firstLineWhitespacePrefix \o lines[k + 1]]
       IN  join(linesIndented, <<LF>>)

indentMultilineParts(parts) ==
  [k \in 1..Len(parts) |-> indentMultilinePart(parts[k])]

\* The templates and the variable the emitter-like calls are made with.
S_foo == <<102, 111, 111>>
S_bar == <<98, 97, 114>>
Templates ==
  { << S_foo, <<36, 123, 98, 97, 114, 125>> >>,
    << <<32, 32, 36, 123, 98, 97, 114, 125>> >>,
    << <<105, 102, 32, 40, 120, 41, 32, 123>>, <<32, 32, 36, 123, 98, 97, 114, 125>>, <<125>> >>,
    << <<36, 123, 98, 97, 114, 124, 115, 116, 114, 105, 110, 103, 125>> >>,
    << S_foo, <<36, 123, 98, 97, 114, 124, 101, 101, 101, 107, 125>> >>,
    << S_foo, <<36, 123, 98, 97, 122, 125>> >>,
    << <<36, 123, 49, 125, 36>>, <<36, 123, 98, 97, 114, 125, 36, 123, 98, 97, 114, 125>> >> }

\* "  baz\nqux"
S_example == <<32, 32, 98, 97, 122, 10, 113, 117, 120>>

Values ==
  UNION {[1..k -> {32, LF, 120}] : k \in 0..MaxLen} \cup {S_example}

FormatInit ==
  /\ args \in {[parts |-> t, vars |-> (S_bar :> v)] :
                 t \in Templates, v \in Values}
  /\ formatted = NotFormatted
  /\ counters = <<>>
  /\ ids = <<>>
  /\ todo = <<>>
  /\ emitting = ""
  /\ emitted = <<>>
  /\ grammar = 1
  /\ input = <<>>
  /\ pos = 0
  /\ reportMatchFailures = TRUE
  /\ rightmostMatchFailuresPos = 0
  /\ rightmostMatchFailuresExpected = <<>>
  /\ cache = <<>>
  /\ stack = <<>>
  /\ ctl = End
  /\ result = Null
  /\ outcome = NoOutcome
  /\ lookup = FALSE
  /\ memoOutcome = NoOutcome
  /\ calls = <<>>
  /\ exited = Exited("none", 0, "", Snap, <<>>)

\* The parser variables: no parser runs while the emitter does.
keepParser ==
  UNCHANGED << grammar, input, pos, reportMatchFailures,
               rightmostMatchFailuresPos, rightmostMatchFailuresExpected,
               cache, stack, ctl, result, outcome, lookup, memoOutcome,
               calls, exited >>

formatCode ==
  /\ formatted.kind = "none"
  /\ args # NoArgs
  /\ LET interpolated == interpolateVariablesInParts(args.parts, args.vars)
         indented == indentMultilineParts(interpolated.parts)
     IN  formatted' =
           IF interpolated.error
           THEN [kind |-> "throw", value |-> interpolated.text,
                 interpolated |-> <<>>, indented |-> <<>>]
           ELSE [kind |-> "return", value |-> join(indented, <<LF>>),
                 interpolated |-> interpolated.parts, indented |-> indented]
  /\ UNCHANGED <<args, counters, ids, todo, emitting, emitted>>
  /\ keepParser

FormatSpec == FormatInit /\ [][formatCode]_vars

-----------------------------------------------------------------------------
(* UID, the allocator of the variable names of the emitted code, and the   *)
(* emission of the rules                                                     *)

S_result == <<114, 101, 115, 117, 108, 116>>
S_savedPos == <<115, 97, 118, 101, 100, 80, 111, 115>>
S_savedReportMatchFailuresVar ==
  <<115, 97, 118, 101, 100, 82, 101, 112, 111, 114, 116, 77, 97, 116, 99, 104, 70, 97, 105, 108, 117, 114, 101, 115, 86, 97, 114>>

\* Number to string, as string concatenation converts it.
RECURSIVE toDecimal(_)
toDecimal(n) ==
  IF n < 10 THEN <<48 + n>> ELSE toDecimal(n \div 10) \o <<48 + (n % 10)>>

\* A reset that leaves the counters as they are.
UID_reset_keeps == counters

\* UID.reset(): the value of this._counters after it.
UID_reset == <<>>

\* this._counters[prefix] || 0
counterOf(c, prefix) == IF prefix \in DOMAIN c THEN c[prefix] ELSE 0

\* UID.next(prefix) on the counters c: what it returns and the counters
\* after it.
UID_next(c, prefix) ==
  [id |-> prefix \o toDecimal(counterOf(c, prefix)),
   counters |-> (prefix :> counterOf(c, prefix) + 1) @@ c]

\* The prefixes of the UID.next calls that emit makes for node n, in the
\* order of the calls.
RECURSIVE uidCalls(_)
RECURSIVE uidCallsOfAlternatives(_)
RECURSIVE uidCallsOfElements(_)

\* The loop of choice, from the last alternative to the first.
uidCallsOfAlternatives(alternatives) ==
  IF alternatives = <<>> THEN <<>>
  ELSE <<S_result>> \o uidCalls(alternatives[Len(alternatives)])
       \o uidCallsOfAlternatives(
            SubSeq(alternatives, 1, Len(alternatives) - 1))

\* The loop of sequence, from the last element to the first.
uidCallsOfElements(elements) ==
  IF elements = <<>> THEN <<>>
  ELSE uidCalls(elements[Len(elements)])
       \o uidCallsOfElements(SubSeq(elements, 1, Len(elements) - 1))

uidCalls(n) ==
  LET type == Node(n).type
  IN  IF type = "choice" THEN uidCallsOfAlternatives(Kids(n))
      ELSE IF type = "sequence"
      THEN <<S_savedPos>> \o [k \in 1..Len(Kids(n)) |-> S_result]
           \o uidCallsOfElements(Kids(n))
      ELSE IF type = "labeled" THEN uidCalls(Kids(n)[1])
      ELSE IF type \in {"simple_and", "simple_not"}
      THEN <<S_savedPos, S_savedReportMatchFailuresVar, S_result>>
           \o uidCalls(Kids(n)[1])
      ELSE IF type \in {"optional", "zero_or_more", "one_or_more", "action"}
      THEN <<S_result>> \o uidCalls(Kids(n)[1])
      ELSE <<>>

\* The number of rule emissions followed.
MaxEmissions == 3

EmitInit ==
  /\ grammar \in 1..Len(Grammars)
  /\ NoBuild
  /\ input = <<>>
  /\ pos = 0
  /\ reportMatchFailures = TRUE
  /\ rightmostMatchFailuresPos = 0
  /\ rightmostMatchFailuresExpected = <<>>
  /\ cache = <<>>
  /\ stack = <<>>
  /\ ctl = End
  /\ result = Null
  /\ outcome = NoOutcome
  /\ lookup = FALSE
  /\ memoOutcome = NoOutcome
  /\ calls = <<>>
  /\ exited = Exited("none", 0, "", Snap, <<>>)

\* emit of a rule node, up to the emission of its expression: UID.reset()
\* and var resultVar = UID.next("result").  The rule is any rule of the
\* grammar: the order of for (var name in node.rules) is the engine's.
emit_rule ==
  /\ emitting = ""
  /\ Len(emitted) < MaxEmissions
  /\ \E name \in DOMAIN G.rules :
        LET resultVar == UID_next(UID_reset, S_result)
        IN  /\ emitting' = name
            /\ counters' = resultVar.counters
            /\ ids' = <<resultVar.id>>
            /\ todo' = uidCalls(G.rules[name].expression)
  /\ UNCHANGED <<args, formatted, emitted>>
  /\ keepParser

\* The next UID.next call of emit(node.expression, resultVar).
emit_expression ==
  /\ emitting # ""
  /\ todo # <<>>
  /\ LET var == UID_next(counters, Head(todo))
     IN  /\ counters' = var.counters
         /\ ids' = Append(ids, var.id)
  /\ todo' = Tail(todo)
  /\ UNCHANGED <<args, formatted, emitting, emitted>>
  /\ keepParser

\* The rule's code is returned; its identifiers are those of ids.
emit_rule_return ==
  /\ emitting # ""
  /\ todo = <<>>
  /\ emitted' = Append(emitted, [rule |-> emitting, ids |-> ids])
  /\ emitting' = ""
  /\ UNCHANGED <<args, formatted, counters, ids, todo>>
  /\ keepParser

EmitNext == emit_rule \/ emit_expression \/ emit_rule_return

EmitSpec == EmitInit /\ [][EmitNext]_vars

-----------------------------------------------------------------------------
(* Properties *)

Is(g) == Grammars[grammar] = g
Ended == ctl.op = "end"
Threw == outcome.kind = "SyntaxError"
Returned == outcome.kind = "return"

\* C1: parse returns the start rule's result exactly when that result is
\* non-null and pos equals input.length once the start rule has returned; in
\* every other case it throws a SyntaxError and returns no value.
C1_ParseReturnsOrThrows ==
  Ended =>
    /\ Returned <=> (result # Null /\ pos = Len(input))
    /\ Returned => outcome.value = result
    /\ ~Returned => Threw /\ outcome.value = Undefined

\* The start rule matched a proper prefix of the input and parse threw.
C1_Witness ==
  Ended /\ result # Null /\ pos < Len(input) /\ Threw

\* C2: every operator fragment exits either with a non-null result, or with a
\* null result and pos where it was on entry.
C2_FragmentContract ==
  (ctl.op = "ret" /\ exited.type # "none") =>
    (ctl.val # Null \/ pos = exited.e.pos)

\* C3: for a grammar without semantic code, the parser that reads the cache
\* and the parser that never reads it end with the same outcome: the same
\* value, or a SyntaxError with the same message, line and column.
C3_MemoizationTransparent ==
  (Ended /\ ~lookup /\ NoSemanticCode(grammar)) => outcome = memoOutcome

\* The failure descriptions of the calls made at position p, in call order.
FailuresAt(p) ==
  LET at == SelectSeq(calls, LAMBDA c : c.pos = p)
  IN  [k \in 1..Len(at) |-> at[k].failure]

LastCall == calls[Len(calls)]

\* C4: during one parse rightmostMatchFailuresPos never decreases;
\* rightmostMatchFailuresExpected holds exactly the descriptions, in call
\* order and with duplicates, of the matchFailed calls made at the current
\* rightmostMatchFailuresPos; a call left of it changes nothing and a call
\* right of it empties the list before appending.
C4_RightmostFailures ==
  /\ [](~Ended =>
          rightmostMatchFailuresExpected = FailuresAt(rightmostMatchFailuresPos))
  /\ [][lookup' = lookup =>
          rightmostMatchFailuresPos' >= rightmostMatchFailuresPos]_vars
  /\ [][Len(calls') = Len(calls) + 1 =>
          LET c == calls'[Len(calls')]
          IN  /\ c.pos < rightmostMatchFailuresPos =>
                   UNCHANGED <<rightmostMatchFailuresPos,
                               rightmostMatchFailuresExpected>>
              /\ c.pos = rightmostMatchFailuresPos =>
                   /\ UNCHANGED rightmostMatchFailuresPos
                   /\ rightmostMatchFailuresExpected' =
                        Append(rightmostMatchFailuresExpected, c.failure)
              /\ c.pos > rightmostMatchFailuresPos =>
                   /\ rightmostMatchFailuresPos' = c.pos
                   /\ rightmostMatchFailuresExpected' = <<c.failure>>]_vars

\* A call left of the rightmost position was ignored, after a call right of
\* the previous one had replaced a non-empty list.
C4_Witness ==
  /\ ~Ended
  /\ Len(calls) >= 3
  /\ LastCall.pos < rightmostMatchFailuresPos
  /\ \E k \in 2..Len(calls) : calls[k].pos > calls[k - 1].pos
  /\ rightmostMatchFailuresExpected = FailuresAt(rightmostMatchFailuresPos)

Terminators == {LF, CR, LS, PS}

\* The character at 1-based index i of in is a line break: a terminator, but
\* not a \n right after a \r.
IsBreak(in, i) ==
  /\ in[i] \in Terminators
  /\ ~(in[i] = LF /\ i > 1 /\ in[i - 1] = CR)

\* The line and the column of offset n of in, as claim C7 states them.
LineOf(in, n) == 1 + Cardinality({i \in 1..n : IsBreak(in, i)})
ColumnOf(in, n) ==
  LET ends == {i \in 1..n : in[i] \in Terminators}
      last == IF ends = {} THEN 0 ELSE CHOOSE i \in ends : \A j \in ends : j <= i
  IN  1 + n - last

\* C5: when the start rule succeeds at pos < input.length, the SyntaxError
\* carries the line and column of offset pos: for start = "abc" and input
\* "abcd", line 1 and column 4.
C5_UnconsumedInputPosition ==
  (Ended /\ result # Null /\ pos < Len(input)) =>
    /\ Threw
    /\ outcome.line = LineOf(input, pos)
    /\ outcome.column = ColumnOf(input, pos)
    /\ (Is(G_literal) /\ input = <<97, 98, 99, 100>>) =>
         (outcome.line = 1 /\ outcome.column = 4)

\* C6 as stated: for start = "abc" and input "ab", parse throws a SyntaxError
\* with line 1 and column 3.
C6_Original ==
  (Ended /\ Is(G_literal) /\ input = <<97, 98>>) =>
    (Threw /\ outcome.line = 1 /\ outcome.column = 3)

\* C6 as amended: for start = "abc" and input "ab", parse throws a
\* SyntaxError with line 1 and column 1, the position where the literal was
\* tried.
C6_LiteralFailurePosition ==
  (Ended /\ Is(G_literal) /\ input = <<97, 98>>) =>
    (Threw /\ outcome.line = 1 /\ outcome.column = 1)

\* The parse of "ab" by start = "abc" has thrown with "abc" expected at 0.
C6_Witness ==
  /\ Ended /\ Is(G_literal) /\ input = <<97, 98>> /\ Threw
  /\ rightmostMatchFailuresPos = 0
  /\ rightmostMatchFailuresExpected = <<quote(<<97, 98, 99>>)>>

\* C7: the SyntaxError carries line = 1 + the number of line breaks in
\* input[0 .. rightmostMatchFailuresPos), a \n right after a \r (and only
\* then) not being counted, and column = 1 + the number of characters after
\* the last line terminator of that prefix; start = "a" "\n" "b" on "a\nc"
\* gives line 2, column 1.
C7_ErrorPosition ==
  (Ended /\ Threw) =>
    /\ outcome.line = LineOf(input, rightmostMatchFailuresPos)
    /\ outcome.column = ColumnOf(input, rightmostMatchFailuresPos)
    /\ (Is(G_lines) /\ input = <<97, LF, 99>>) =>
         (outcome.line = 2 /\ outcome.column = 1)

\* C8: a choice runs its alternatives left to right, each from the choice's
\* entry position; its result is that of the first alternative that yields
\* non-null, nothing right of that one runs, and it is null only when every
\* alternative failed; start = "a" / "ab" on "ab" throws a SyntaxError.
C8_OrderedChoice ==
  /\ (ctl.op = "exec" /\ stack # <<>> /\ Top.kind = "frag"
        /\ Node(Top.n).type = "choice") =>
       (pos = Top.e.pos /\ ctl.n = Kids(Top.n)[Top.i])
  /\ (ctl.op = "ret" /\ exited.type = "choice") =>
       LET t == exited.tried
       IN  /\ \A k \in 1..Len(t) : t[k].alt = k
           /\ \A k \in 1..(Len(t) - 1) : t[k].val = Null
           /\ ctl.val = t[Len(t)].val
           /\ ctl.val = Null => Len(t) = Len(Kids(exited.n))
  /\ (Ended /\ Is(G_choice) /\ input = <<97, 98>>) => Threw

\* C9: when a simple_and or simple_not fragment completes, pos,
\* reportMatchFailures, rightmostMatchFailuresPos and
\* rightmostMatchFailuresExpected are what they were on entry, whatever the
\* result, and matchFailed was not called in between.
C9_PredicateFrame ==
  (ctl.op = "ret" /\ exited.type \in {"simple_and", "simple_not"}) =>
    /\ pos = exited.e.pos
    /\ reportMatchFailures = exited.e.report
    /\ rightmostMatchFailuresPos = exited.e.rmfPos
    /\ rightmostMatchFailuresExpected = exited.e.expected
    /\ Len(calls) = exited.e.ncalls

HasDisplayName(rule) == G.rules[rule].displayName # NoName

InNamedRule(stk) ==
  \E k \in 1..Len(stk) : stk[k].kind = "rule" /\ HasDisplayName(stk[k].rule)

\* C10: while the body of a rule with a displayName runs nothing is added to
\* rightmostMatchFailuresExpected; when parse_<name> of such a rule, entered
\* with reportMatchFailures true, returns null, it has made exactly one call,
\* matchFailed(displayName), at its entry position and with
\* reportMatchFailures restored; entered with reportMatchFailures false it
\* has reported nothing; a rule without displayName neither changes
\* reportMatchFailures nor reports.
C10_DisplayName ==
  /\ [][(InNamedRule(stack) /\ InNamedRule(stack')) =>
          UNCHANGED <<rightmostMatchFailuresExpected, calls>>]_vars
  /\ []((ctl.op = "ret" /\ exited.type = "rule") =>
          /\ reportMatchFailures = exited.e.report
          /\ IF HasDisplayName(exited.rule) /\ exited.e.report /\ ctl.val = Null
             THEN /\ Len(calls) = exited.e.ncalls + 1
                  /\ LastCall = [pos |-> exited.e.pos,
                                 failure |-> G.rules[exited.rule].displayName]
             ELSE HasDisplayName(exited.rule) => Len(calls) = exited.e.ncalls)
  /\ [][(ctl.op = "call" /\ ~HasDisplayName(ctl.rule)) =>
          UNCHANGED <<reportMatchFailures, calls>>]_vars
  /\ [][(ctl.op = "ret" /\ stack # <<>> /\ Top.kind = "rule"
           /\ ~HasDisplayName(Top.rule)) =>
          UNCHANGED <<reportMatchFailures, calls>>]_vars


-----------------------------------------------------------------------------
(* Termination of the loops *)

\* A zero_or_more fragment is running its sub-expression.
InZeroOrMore ==
  \E d \in 1..Len(stack) :
     stack[d].kind = "frag" /\ Node(stack[d].n).type = "zero_or_more"

\* C11: a zero_or_more fragment always succeeds: whatever its sub-expression
\* and the position it starts at, it eventually returns, and what it returns
\* is never null but the array of the successful results of its
\* sub-expression, in the order they were obtained.
C11_ZeroOrMoreTerminates ==
  /\ InZeroOrMore ~> ~InZeroOrMore
  /\ [][zero_or_more_resume =>
          IF ctl.val # Null
          THEN Top.i <= MaxIter => Top'.res = push(Top.res, ctl.val)
          ELSE ctl'.val = Top.res /\ ctl'.val # Null]_vars

-----------------------------------------------------------------------------
(* Re-indentation by formatCode *)

HasNewline(s) == \E i \in 1..Len(s) : s[i] = LF
NumLines(s) == 1 + Cardinality({i \in 1..Len(s) : s[i] = LF})

RECURSIVE TotalLines(_)
TotalLines(parts) ==
  IF parts = <<>> THEN 0 ELSE NumLines(Head(parts)) + TotalLines(Tail(parts))

\* The text before the first newline.
FirstLine(s) ==
  SubSeq(s, 1, CHOOSE n \in 0..Len(s) :
                 /\ \A i \in 1..n : s[i] # LF
                 /\ n < Len(s) => s[n + 1] = LF)

\* The whitespace a line starts with.
LeadingWhitespace(line) ==
  SubSeq(line, 1, CHOOSE n \in 0..Len(line) :
                    /\ \A i \in 1..n : line[i] \in WhiteSpace
                    /\ n < Len(line) => line[n + 1] \notin WhiteSpace)

\* The part with prefix put in front of every line but the first.
Reindented(part, prefix) ==
  Concat([i \in 1..Len(part) |->
            IF part[i] = LF THEN <<LF>> \o prefix ELSE <<part[i]>>])

\* C12: formatCode returns, for every interpolated part that contains a
\* newline, the part with its first line unchanged and every later line
\* preceded by exactly the leading whitespace of the first line, a prefix
\* without a newline, also when that first line is empty or only whitespace;
\* the result has as many lines as the interpolated parts have together; and
\* formatCode("foo", "${bar}", { bar: "  baz\nqux" }) is "foo\n  baz\n  qux".
C12_Reindentation ==
  formatted.kind = "return" =>
    /\ \A k \in 1..Len(formatted.interpolated) :
         LET part == formatted.interpolated[k]
             prefix == LeadingWhitespace(FirstLine(part))
         IN  HasNewline(part) =>
               /\ ~HasNewline(prefix)
               /\ formatted.indented[k] = Reindented(part, prefix)
    /\ NumLines(formatted.value) = TotalLines(formatted.interpolated)
    /\ args = [parts |-> << S_foo, <<36, 123, 98, 97, 114, 125>> >>,
               vars |-> (S_bar :> S_example)]
         => formatted.value = <<102, 111, 111, 10, 32, 32, 98, 97, 122, 10, 32, 32, 113, 117, 120>>

-----------------------------------------------------------------------------
(* Identifier allocation *)

Prefixes == {S_result, S_savedPos, S_savedReportMatchFailuresVar}

\* C13: identifier allocation is rule-local.  Every rule emission starts
\* from counters that are all zero, so its first identifier is "result0" and
\* only the counter of "result" has moved when its expression is reached;
\* the identifiers allocated while one rule is emitted are pairwise distinct;
\* two emissions of the same rule allocate the same sequence of identifiers
\* whatever was emitted before each; and a UID.next call moves the counter
\* of its own prefix by one and no other counter.
C13_RuleLocalIdentifiers ==
  /\ [](/\ \A i, j \in 1..Len(ids) : i # j => ids[i] # ids[j]
        /\ emitting # "" => ids[1] = S_result \o <<48>>
        /\ \A i, j \in 1..Len(emitted) :
              emitted[i].rule = emitted[j].rule
                => emitted[i].ids = emitted[j].ids)
  /\ [][emit_rule =>
          \A p \in Prefixes :
             counterOf(counters', p) = IF p = S_result THEN 1 ELSE 0]_vars
  /\ [][emit_expression =>
          \A p \in Prefixes :
             counterOf(counters', p) =
               counterOf(counters, p) + IF p = Head(todo) THEN 1 ELSE 0]_vars

\* A rule has been emitted twice, the second time right after another rule,
\* with identifiers of all three prefixes, two of them of one prefix.
C13_Witness ==
  \E i, j \in 1..Len(emitted) :
     /\ i < j
     /\ emitted[i].rule = emitted[j].rule
     /\ emitted[j - 1].rule # emitted[j].rule
     /\ {S_result \o <<49>>, S_savedPos \o <<48>>,
         S_savedReportMatchFailuresVar \o <<48>>}
          \subseteq {emitted[j].ids[k] : k \in 1..Len(emitted[j].ids)}

-----------------------------------------------------------------------------
(* The state of the parser after the start rule *)

\* C14: when the start rule's function returns null, pos is 0 and
\* rightmostMatchFailuresExpected holds at least one failure, for every
\* grammar, whether the start rule fails through a literal, a negative
\* lookahead, a semantic predicate or a cache hit; so the message of a parse
\* whose start rule returned null never begins "Expected end of input".
C14_FailedParseState ==
  /\ (ctl.op = "ret" /\ stack = <<>> /\ ctl.val = Null)
       => /\ pos = 0
          /\ Len(rightmostMatchFailuresExpected) >= 1
  /\ (Ended /\ result = Null /\ outcome.kind = "SyntaxError")
       => SubSeq(outcome.message, 1, Len(S_Expected \o S_endOfInput))
            # S_Expected \o S_endOfInput

-----------------------------------------------------------------------------
(* Positions *)

\* C15: in every state of every parse, pos and rightmostMatchFailuresPos
\* lie between 0 and input.length, and every cache entry's nextPos lies
\* between the position of its key and input.length.
C15_PositionBounds ==
  /\ 0 <= pos /\ pos <= Len(input)
  /\ 0 <= rightmostMatchFailuresPos
  /\ rightmostMatchFailuresPos <= Len(input)
  /\ \A cacheKey \in DOMAIN cache :
        /\ cacheKey[2] <= cache[cacheKey].nextPos
        /\ cache[cacheKey].nextPos <= Len(input)

\* any has consumed a non-empty input to its end, the rule it is in is
\* cached as ending there, and a literal has just failed there.
C15_Witness ==
  /\ Is(G_rest)
  /\ Len(input) > 0
  /\ pos = Len(input)
  /\ rightmostMatchFailuresPos = Len(input)
  /\ \E cacheKey \in DOMAIN cache :
        cacheKey[2] = 0 /\ cache[cacheKey].nextPos = Len(input)
  /\ exited.type = "literal"
  /\ ctl.val = Null

====
